---- MODULE Spec2Model ----
(***************************************************************************)
(* State-machine model of src/src/api/simple_api_server.py: the           *)
(* transaction risk-scoring handlers and the in-memory monitoring state.   *)
(*                                                                         *)
(* Probabilities (risk_score) are counted in hundredths: 85 stands for     *)
(* 0.85, so the literals 0.2, 0.5, 0.6 and 0.8 of the source read 20, 50,  *)
(* 60 and 80 here.  Time is counted in whole hours since start_time.       *)
(*                                                                         *)
(* Five specifications:                                                    *)
(*   Spec      requests handled one at a time: process calls up to MaxTx   *)
(*             scored transactions, and stats reads;                       *)
(*   SpecBulk  a budget of MaxServed requests, each a process call, a      *)
(*             bulk call of up to MaxBatch records, or a stats read;       *)
(*   SpecMonitor  requests handled one at a time under a running clock:    *)
(*             every endpoint, up to MaxTx scored transactions;            *)
(*   SpecConc  ConcurrentCalls threads in process_transaction and one in   *)
(*             get_monitoring_stats, interleaved statement by statement;   *)
(*   SpecLauncher  src/src/utils/start_system.py: main starting the three  *)
(*             components as child processes, and its cleanup on exit.     *)
(***************************************************************************)
EXTENDS Integers, Sequences, FiniteSets, TLC

VARIABLES
    model,                   \* global `model`: None or the unpickled classifier
    metadata,                \* global `metadata`: None or the unpickled dict
    monitoring_stats,        \* global dict of counters
    recent_alerts,           \* global list of alerts
    high_risk_transactions,  \* global list of HIGH transactions
    now,                     \* datetime.now(), hours since start_time
    request,                 \* the request the last handler served
    scorer,                  \* what model.predict_proba did during that request
    response,                \* the response the last handler returned
    served,                  \* requests served so far, where a run is budgeted
    inflight,                \* per server thread: the frame of the call it is in
    main_pc,                 \* start_system.py: <<function, statement>> main is at
    attempt,                 \* start_api_server: `attempt` of the health loop
    health,                  \* start_api_server: what requests.get did last
    api_process,             \* main: local api_process
    generator_process,       \* main: local generator_process
    dashboard_process,       \* main: local dashboard_process
    children                 \* the state of each child process of the launcher

\* The variables of the launcher, src/src/utils/start_system.py
launcher_vars == <<main_pc, attempt, health, api_process, generator_process,
                   dashboard_process, children>>

\* The variables of the API server
server_vars == <<model, metadata, monitoring_stats, recent_alerts,
                 high_risk_transactions, now, request, scorer, response, served,
                 inflight>>

vars == <<model, metadata, monitoring_stats, recent_alerts,
          high_risk_transactions, now, request, scorer, response, served,
          inflight, main_pc, attempt, health, api_process, generator_process,
          dashboard_process, children>>

None == [None |-> TRUE]

\* The unpickled classifier
Classifier == [classifier |-> "best_model.pkl"]

\* ------------------------------------------------------------------ bounds

\* Most successful process calls in one run (cap on total_transactions)
MaxTx == 2
\* Latest clock value
MaxTime == 1
\* Most records in one bulk request
MaxBatch == 2
\* Most requests in a budgeted run
MaxServed == 1
\* Threads serving one process call each, beside one thread reading the stats
ConcurrentCalls == 2

\* ------------------------------------------------------------- input sets

TransactionIds == {"t1", "t2"}
Amounts == {500, 50000, 50001, 100000, 100001, 150000}
Probabilities == {0, 19, 20, 49, 50, 60, 61, 79, 80, 85, 100}
Thresholds == {50, 70}
\* predict_proba raises
Raises == [raises |-> TRUE]
ScorerOutcomes == [proba : Probabilities] \cup {Raises}

required_fields ==
    <<"transaction_id", "amount", "sender_id", "receiver_id", "transaction_type">>

RequiredSet == {required_fields[i] : i \in 1..Len(required_fields)}

\* A JSON object holding the required fields except those in `missing`
Record(id, amount, missing) ==
    [f \in RequiredSet \ missing |->
        CASE f = "transaction_id" -> id
          [] f = "amount" -> amount
          [] f = "sender_id" -> "a"
          [] f = "receiver_id" -> "b"
          [] f = "transaction_type" -> "transfer"]

\* JSON null, which request.json turns into Python's None
JsonNull == [null |-> TRUE]

WellFormedRecords == {Record(id, a, {}) : id \in TransactionIds, a \in Amounts}
MalformedRecords == {Record("t1", 500, {f}) : f \in RequiredSet}
                        \cup {Record("t1", 500, {"amount", "sender_id"})}
Records == WellFormedRecords \cup MalformedRecords \cup {JsonNull}

\* ---------------------------------------------------------- pure functions

IsException(v) == "exc" \in DOMAIN v

\* The message f'Missing required field: {field}'
MissingField(field) == [message |-> "Missing required field", field |-> field]

Exception(kind, arg) == [exc |-> kind, arg |-> arg]

\* MissingFields with 'amount' left out of required_fields
MissingFields_no_amount(data) ==
    SelectSeq(required_fields, LAMBDA f : f # "amount" /\ f \notin DOMAIN data)

\* `field not in data` for each required field, in order: the missing ones
MissingFields(data) ==
    SelectSeq(required_fields, LAMBDA f : f \notin DOMAIN data)

\* get_risk_level with the boundaries taken with <= instead of <
get_risk_level_inclusive(risk_score) ==
    IF risk_score <= 20 THEN "MINIMAL"
    ELSE IF risk_score <= 50 THEN "LOW"
    ELSE IF risk_score <= 80 THEN "MEDIUM"
    ELSE "HIGH"

get_risk_level(risk_score) ==
    IF risk_score < 20 THEN "MINIMAL"
    ELSE IF risk_score < 50 THEN "LOW"
    ELSE IF risk_score < 80 THEN "MEDIUM"
    ELSE "HIGH"

\* datetime.isoformat() of the instant t hours after start_time: the text of
\* its date and of its time of day
isoformat(t) == [date |-> t \div 24, time |-> t % 24]

\* A string datetime.fromisoformat parses
IsIsoformat(text) == DOMAIN text = {"date", "time"}

\* datetime.fromisoformat(text), as hours after start_time
fromisoformat(text) == text.date * 24 + text.time

\* timestamp.hour, timestamp.weekday() and timestamp.month of the instant ts,
\* start_time being midnight of a Monday that begins a year of 30-day months
hour(ts) == ts % 24
weekday(ts) == (ts \div 24) % 7
month(ts) == ((ts \div 720) % 12) + 1

\* hash(text) % modulus: Python's string hash, one function of the text for
\* the life of the process
hash_mod(text, modulus) == [hash |-> text, mod |-> modulus]

\* transaction_data.get(key, default)
get(transaction_data, key, default) ==
    IF key \in DOMAIN transaction_data THEN transaction_data[key] ELSE default

\* prepare_features reading the clock for every record, whatever its
\* timestamp field
prepare_features_clock(transaction_data, t) ==
    IF "amount" \notin DOMAIN transaction_data THEN Exception("KeyError", "amount")
    ELSE [Amount |-> transaction_data["amount"],
          Hour |-> hour(t), Month |-> month(t), Day_of_week |-> weekday(t)]

\* The model's features of the record at wall-clock time t, or the exception
\* prepare_features raises: the ValueError of a timestamp that does not
\* parse, or the KeyError of the first key the dict literal reads that the
\* record lacks.  The sines and cosines of the hour, the month and the
\* weekday stand as the hour, the month and the weekday they are taken of.
prepare_features(transaction_data, t) ==
    IF ~IsIsoformat(get(transaction_data, "timestamp", isoformat(t)))
        THEN Exception("ValueError", "fromisoformat")
    ELSE IF "amount" \notin DOMAIN transaction_data THEN Exception("KeyError", "amount")
    ELSE IF "receiver_id" \notin DOMAIN transaction_data
        THEN Exception("KeyError", "receiver_id")
    ELSE IF "sender_id" \notin DOMAIN transaction_data
        THEN Exception("KeyError", "sender_id")
    ELSE IF "transaction_type" \notin DOMAIN transaction_data
        THEN Exception("KeyError", "transaction_type")
    ELSE LET timestamp == fromisoformat(get(transaction_data, "timestamp", isoformat(t)))
         IN  [Amount |-> transaction_data["amount"],
              Log_amount |-> [log1p |-> transaction_data["amount"]],
              Receiver_account |-> hash_mod(transaction_data["receiver_id"], 1000000),
              Sender_account |-> hash_mod(transaction_data["sender_id"], 1000000),
              Payment_type |-> hash_mod(transaction_data["transaction_type"], 100),
              Received_currency |->
                 hash_mod(get(transaction_data, "received_currency", "USD"), 100),
              Hour |-> hour(timestamp),
              Month |-> month(timestamp),
              Day_of_week |-> weekday(timestamp),
              Receiver_bank_location |->
                 hash_mod(get(transaction_data, "receiver_bank_location", "Unknown"), 100),
              Payment_currency |->
                 hash_mod(get(transaction_data, "payment_currency", "USD"), 100),
              Is_weekend |-> IF weekday(timestamp) >= 5 THEN 1 ELSE 0,
              Sender_bank_location |->
                 hash_mod(get(transaction_data, "sender_bank_location", "Unknown"), 100),
              Is_night |-> IF hour(timestamp) >= 22 \/ hour(timestamp) <= 6 THEN 1 ELSE 0,
              Amount_rounded |-> 1]

\* predict_risk answering 0.0 where the classifier is missing or raises
predict_risk_swallow(mdl, meta, features, proba) ==
    IF mdl = None \/ proba = Raises \/ meta = None
    THEN [prediction_proba |-> 0, prediction_class |-> 0]
    ELSE [prediction_proba |-> proba.proba,
          prediction_class |-> IF proba.proba >= meta.threshold THEN 1 ELSE 0]

\* proba: what model.predict_proba returns or Raises
predict_risk(mdl, meta, features, proba) ==
    IF mdl = None THEN Exception("ValueError", "Model not loaded")
    ELSE IF proba = Raises THEN Exception("ScorerError", "predict_proba")
    ELSE IF meta = None THEN Exception("AttributeError", "get")
    ELSE [prediction_proba |-> proba.proba,
          prediction_class |-> IF proba.proba >= meta.threshold THEN 1 ELSE 0]

\* requires_review cut at the HIGH threshold 0.8
requires_review_high(risk_score) == risk_score >= 80

\* requires_review with > instead of >=
requires_review_strict(risk_score) == risk_score > 50

requires_review(risk_score) == risk_score >= 50

\* flagged_features with amount >= 100000 instead of >
flagged_features_ge(amount, risk_score) ==
    (IF amount >= 100000 THEN <<"large_amount">> ELSE <<>>)
    \o (IF risk_score > 80 THEN <<"high_risk_score">> ELSE <<>>)
    \o (IF amount > 50000 /\ risk_score > 60 THEN <<"suspicious_pattern">> ELSE <<>>)

\* flagged_features with the third rule under an elif of the second
flagged_features_elif(amount, risk_score) ==
    (IF amount > 100000 THEN <<"large_amount">> ELSE <<>>)
    \o (IF risk_score > 80 THEN <<"high_risk_score">>
        ELSE IF amount > 50000 /\ risk_score > 60 THEN <<"suspicious_pattern">>
        ELSE <<>>)

flagged_features(amount, risk_score) ==
    (IF amount > 100000 THEN <<"large_amount">> ELSE <<>>)
    \o (IF risk_score > 80 THEN <<"high_risk_score">> ELSE <<>>)
    \o (IF amount > 50000 /\ risk_score > 60 THEN <<"suspicious_pattern">> ELSE <<>>)

Abs(x) == IF x < 0 THEN -x ELSE x

\* The JSON body of a scored transaction
result(data, risk_score, t) ==
    [transaction_id |-> data["transaction_id"],
     risk_score |-> risk_score,
     risk_level |-> get_risk_level(risk_score),
     compliance_status |-> IF requires_review(risk_score) THEN "PENDING" ELSE "APPROVED",
     requires_review |-> requires_review(risk_score),
     flagged_features |-> flagged_features(data["amount"], risk_score),
     confidence |-> Abs(risk_score - 50) * 2,
     processed_at |-> isoformat(t)]

\* level_counter with the final else counting into pending_reviews
level_counter_else(risk_level) ==
    CASE risk_level = "HIGH" -> "high_risk_count"
      [] risk_level = "MEDIUM" -> "medium_risk_count"
      [] risk_level = "LOW" -> "low_risk_count"
      [] OTHER -> "pending_reviews"

level_counter(risk_level) ==
    CASE risk_level = "HIGH" -> "high_risk_count"
      [] risk_level = "MEDIUM" -> "medium_risk_count"
      [] risk_level = "LOW" -> "low_risk_count"
      [] OTHER -> "minimal_risk_count"

\* update_stats counting an alert for every HIGH transaction (>= 0.8)
update_stats_alert_on_high(stats, risk_score) ==
    LET s1 == [stats EXCEPT !["total_transactions"] = @ + 1]
        s2 == [s1 EXCEPT ![level_counter(get_risk_level(risk_score))] = @ + 1]
        s3 == IF requires_review(risk_score)
              THEN [s2 EXCEPT !["pending_reviews"] = @ + 1] ELSE s2
    IN  IF risk_score >= 80 THEN [s3 EXCEPT !["alerts_generated"] = @ + 1] ELSE s3

\* update_stats taking one off pending_reviews for a transaction that needs
\* no review
update_stats_approve(stats, risk_score) ==
    LET s1 == [stats EXCEPT !["total_transactions"] = @ + 1]
        s2 == [s1 EXCEPT ![level_counter(get_risk_level(risk_score))] = @ + 1]
        s3 == IF requires_review(risk_score)
              THEN [s2 EXCEPT !["pending_reviews"] = @ + 1]
              ELSE [s2 EXCEPT !["pending_reviews"] = IF @ > 0 THEN @ - 1 ELSE 0]
    IN  IF risk_score > 80 THEN [s3 EXCEPT !["alerts_generated"] = @ + 1] ELSE s3

\* update_stats with total_transactions = 1 in place of += 1
update_stats_assign(stats, risk_score) ==
    LET s1 == [stats EXCEPT !["total_transactions"] = 1]
        s2 == [s1 EXCEPT ![level_counter(get_risk_level(risk_score))] = @ + 1]
        s3 == IF requires_review(risk_score)
              THEN [s2 EXCEPT !["pending_reviews"] = @ + 1] ELSE s2
    IN  IF risk_score > 80 THEN [s3 EXCEPT !["alerts_generated"] = @ + 1] ELSE s3

\* The monitoring counters after one scored transaction
update_stats(stats, risk_score) ==
    LET s1 == [stats EXCEPT !["total_transactions"] = @ + 1]
        s2 == [s1 EXCEPT ![level_counter(get_risk_level(risk_score))] = @ + 1]
        s3 == IF requires_review(risk_score)
              THEN [s2 EXCEPT !["pending_reviews"] = @ + 1] ELSE s2
    IN  IF risk_score > 80 THEN [s3 EXCEPT !["alerts_generated"] = @ + 1] ELSE s3

\* high_risk_entry with the sender's id under transaction_id
high_risk_entry_sender(data, risk_score, t) ==
    [transaction_id |-> data["sender_id"],
     risk_score |-> risk_score,
     risk_level |-> get_risk_level(risk_score),
     amount |-> data["amount"],
     sender_id |-> data["sender_id"],
     receiver_id |-> data["receiver_id"],
     timestamp |-> isoformat(t)]

high_risk_entry(data, risk_score, t) ==
    [transaction_id |-> data["transaction_id"],
     risk_score |-> risk_score,
     risk_level |-> get_risk_level(risk_score),
     amount |-> data["amount"],
     sender_id |-> data["sender_id"],
     receiver_id |-> data["receiver_id"],
     timestamp |-> isoformat(t)]

alert(data, risk_score, t) ==
    [type |-> "HIGH_RISK_TRANSACTION",
     severity |-> "HIGH",
     message |-> <<"High risk transaction detected", data["transaction_id"]>>,
     risk_score |-> risk_score,
     amount |-> data["amount"],
     sender |-> data["sender_id"],
     receiver |-> data["receiver_id"],
     timestamp |-> isoformat(t)]

\* ---------------------------------------------------------------- launcher

\* The child processes main starts, by what they run
Components == {"api", "generator", "dashboard"}

\* max_retries of start_api_server
max_retries == 5

\* The subprocess.Popen object of a child
Popen_object(c) == [child |-> c]

\* The function of start_system.py that starts a child
start_function(c) ==
    CASE c = "api" -> "start_api_server"
      [] c = "generator" -> "start_transaction_generator"
      [] c = "dashboard" -> "start_dashboard_server"

StartFunctions == {start_function(c) : c \in Components}

\* What requests.get on /api/health does: a response with a status code, or
\* an exception
HealthOutcomes == {[status_code |-> 200], [status_code |-> 503], Raises}

\* ------------------------------------------------------------------- state

\* Thread 0 serves GET /api/monitoring/stats, the others POST
\* /api/process_transaction
StatsThread == 0
ProcessThreads == 1..ConcurrentCalls
Threads == {StatsThread} \cup ProcessThreads

\* A thread's locals: where it is in its handler, the request body, the
\* score, the counter value an augmented assignment has loaded, and the
\* values the stats handler has read so far
IdleFrame == [pc |-> <<"idle", "idle">>, data |-> None, risk_score |-> 0, loaded |-> 0,
              view |-> <<>>]

Init ==
    /\ \/ model = None /\ metadata = None
       \/ model = Classifier /\ metadata = None
       \/ model = Classifier /\ metadata \in [threshold : Thresholds]
    /\ monitoring_stats =
          [total_transactions |-> 0, high_risk_count |-> 0,
           medium_risk_count |-> 0, low_risk_count |-> 0,
           minimal_risk_count |-> 0, pending_reviews |-> 0,
           alerts_generated |-> 0, processing_rate |-> 0,
           uptime_seconds |-> 0]
    /\ recent_alerts = <<>>
    /\ high_risk_transactions = <<>>
    /\ now = 0
    /\ request = None
    /\ scorer = None
    /\ response = None
    /\ served = 0
    /\ inflight = [th \in Threads |-> IdleFrame]
    /\ main_pc = <<"main", "required_files">>
    /\ attempt = 0
    /\ health = None
    /\ api_process = None
    /\ generator_process = None
    /\ dashboard_process = None
    /\ children = [c \in Components |-> "unspawned"]

\* ---------------------------------------------------------------- handlers

\* POST /api/process_transaction with body `data`; `proba` is what the
\* classifier does if it is asked
process_transaction(data, proba) ==
    /\ request' = [endpoint |-> "/api/process_transaction", json |-> data]
    /\ UNCHANGED <<model, metadata, now>>
    /\ IF data = JsonNull
       THEN /\ response' = [status |-> 500, error |-> Exception("TypeError", "in")]
            /\ scorer' = None
            /\ UNCHANGED <<monitoring_stats, recent_alerts, high_risk_transactions>>
       ELSE IF MissingFields(data) # <<>>
       THEN /\ response' = [status |-> 400,
                            error |-> MissingField(Head(MissingFields(data)))]
            /\ scorer' = None
            /\ UNCHANGED <<monitoring_stats, recent_alerts, high_risk_transactions>>
       ELSE IF IsException(prepare_features(data, now))
       THEN /\ response' = [status |-> 500, error |-> prepare_features(data, now)]
            /\ scorer' = None
            /\ UNCHANGED <<monitoring_stats, recent_alerts, high_risk_transactions>>
       ELSE LET features == prepare_features(data, now)
                predicted == predict_risk(model, metadata, features, proba)
            IN  /\ scorer' = IF model = None THEN None ELSE proba
                /\ IF IsException(predicted)
                   THEN /\ response' = [status |-> 500, error |-> predicted]
                        /\ UNCHANGED <<monitoring_stats, recent_alerts,
                                       high_risk_transactions>>
                   ELSE LET risk_score == predicted.prediction_proba
                            risk_level == get_risk_level(risk_score)
                        IN  /\ monitoring_stats' = update_stats(monitoring_stats, risk_score)
                            /\ high_risk_transactions' =
                                  IF risk_level = "HIGH"
                                  THEN Append(high_risk_transactions,
                                              high_risk_entry(data, risk_score, now))
                                  ELSE high_risk_transactions
                            /\ recent_alerts' =
                                  IF risk_score > 80
                                  THEN Append(recent_alerts, alert(data, risk_score, now))
                                  ELSE recent_alerts
                            /\ response' = [status |-> 200,
                                            json |-> result(data, risk_score, now)]

\* GET /api/monitoring/stats
get_monitoring_stats ==
    /\ request' = [endpoint |-> "/api/monitoring/stats"]
    /\ scorer' = None
    /\ monitoring_stats' =
          [monitoring_stats EXCEPT !["uptime_seconds"] = now * 3600]
    /\ response' =
          [status |-> 200,
           json |-> [total_transactions |-> monitoring_stats["total_transactions"],
                     risk_distribution |->
                        [high |-> monitoring_stats["high_risk_count"],
                         medium |-> monitoring_stats["medium_risk_count"],
                         low |-> monitoring_stats["low_risk_count"],
                         minimal |-> monitoring_stats["minimal_risk_count"]],
                     pending_reviews |-> monitoring_stats["pending_reviews"],
                     alerts_generated |-> monitoring_stats["alerts_generated"],
                     processing_rate |-> monitoring_stats["processing_rate"],
                     uptime_seconds |-> now * 3600,
                     queue_size |-> 0,
                     last_alert_time |-> None,
                     model_info |-> [threshold |-> IF metadata = None THEN 50
                                                   ELSE metadata.threshold]]]
    /\ UNCHANGED <<model, metadata, recent_alerts, high_risk_transactions, now>>

\* tx_data.get('transaction_id', 'unknown')
get_transaction_id(tx_data) ==
    IF "transaction_id" \in DOMAIN tx_data THEN tx_data["transaction_id"] ELSE "unknown"

error_entry(tx_data, error) ==
    [transaction_id |-> get_transaction_id(tx_data), error |-> error]

\* What one pass of the loop body over `tx_data` appends to `results`.  The
\* `continue` under the field check continues the loop over required_fields,
\* so after one entry per missing field the body goes on to score the record.
item_entries(mdl, meta, tx_data, proba, t) ==
    LET missing == MissingFields(tx_data)
        reported == [i \in 1..Len(missing) |->
                        error_entry(tx_data, MissingField(missing[i]))]
        features == prepare_features(tx_data, t)
        predicted == predict_risk(mdl, meta, features, proba)
    IN  IF IsException(features) THEN Append(reported, error_entry(tx_data, features))
        ELSE IF IsException(predicted)
            THEN Append(reported, error_entry(tx_data, predicted))
        ELSE IF "transaction_id" \notin DOMAIN tx_data
            THEN Append(reported,
                        error_entry(tx_data, Exception("KeyError", "transaction_id")))
        ELSE Append(reported, result(tx_data, predicted.prediction_proba, t))

\* bulk_results with the except clause outside the loop: the first item that
\* fails ends the batch with its error
RECURSIVE bulk_results_outer_try(_, _, _, _, _, _)
bulk_results_outer_try(mdl, meta, items, i, results, t) ==
    IF i > Len(items) THEN [results |-> results]
    ELSE IF items[i].data = JsonNull THEN Exception("AttributeError", "get")
    ELSE LET entries == item_entries(mdl, meta, items[i].data, items[i].proba, t)
         IN  IF "error" \in DOMAIN entries[Len(entries)]
             THEN entries[Len(entries)].error
             ELSE bulk_results_outer_try(mdl, meta, items, i + 1,
                                         results \o entries, t)

\* `results` after the loop over items[i..], or the exception that leaves the
\* loop: for a null item both the body and its except clause raise
RECURSIVE bulk_results(_, _, _, _, _, _)
bulk_results(mdl, meta, items, i, results, t) ==
    IF i > Len(items) THEN [results |-> results]
    ELSE IF items[i].data = JsonNull THEN Exception("AttributeError", "get")
    ELSE bulk_results(mdl, meta, items, i + 1,
                      results \o item_entries(mdl, meta, items[i].data,
                                              items[i].proba, t),
                      t)

\* What the classifier did for each item of a bulk request: None where
\* predict_proba was not reached
bulk_scorer(mdl, items) ==
    [i \in 1..Len(items) |->
        IF items[i].data = JsonNull \/ mdl = None
           \/ IsException(prepare_features(items[i].data, now))
        THEN None ELSE items[i].proba]

\* POST /api/bulk_process with body {"transactions": [item.data, ...]};
\* item.proba is what the classifier does if it is asked about the item
bulk_process_transactions(items) ==
    /\ request' = [endpoint |-> "/api/bulk_process",
                   json |-> [transactions |-> [i \in 1..Len(items) |-> items[i].data]]]
    /\ scorer' = bulk_scorer(model, items)
    /\ response' =
          IF items = <<>>
          THEN [status |-> 400, error |-> [message |-> "No transactions provided"]]
          ELSE LET looped == bulk_results(model, metadata, items, 1, <<>>, now)
               IN  IF IsException(looped)
                   THEN [status |-> 500, error |-> looped]
                   ELSE [status |-> 200,
                         json |-> [results |-> looped.results,
                                   total_processed |-> Len(looped.results),
                                   successful |->
                                      Len(SelectSeq(looped.results,
                                             LAMBDA r : "error" \notin DOMAIN r))]]
    /\ UNCHANGED <<model, metadata, monitoring_stats, recent_alerts,
                   high_risk_transactions, now>>

\* `alert.get('timestamp') and datetime.fromisoformat(alert['timestamp']) >
\* cutoff_time` with the cutoff taken inclusively
is_recent_inclusive(entry, cutoff_time) ==
    /\ "timestamp" \in DOMAIN entry
    /\ fromisoformat(entry.timestamp) >= cutoff_time

\* alert.get('timestamp') and datetime.fromisoformat(alert['timestamp']) >
\* cutoff_time
is_recent(entry, cutoff_time) ==
    /\ "timestamp" \in DOMAIN entry
    /\ fromisoformat(entry.timestamp) > cutoff_time

\* GET /api/monitoring/alerts?hours=<hours>; an absent hours reads as 24
get_recent_alerts(hours) ==
    LET cutoff_time == now - hours
        filtered_alerts == SelectSeq(recent_alerts,
                                     LAMBDA entry : is_recent(entry, cutoff_time))
    IN  /\ request' = [endpoint |-> "/api/monitoring/alerts",
                       args |-> [hours |-> hours]]
        /\ scorer' = None
        /\ response' = [status |-> 200,
                        json |-> [alerts |-> filtered_alerts,
                                  count |-> Len(filtered_alerts),
                                  hours |-> hours]]
        /\ UNCHANGED <<model, metadata, monitoring_stats, recent_alerts,
                       high_risk_transactions, now>>

\* The Python slice list[:stop]
slice_to(list, stop) ==
    IF stop >= Len(list) THEN list
    ELSE IF stop >= 0 THEN SubSeq(list, 1, stop)
    ELSE IF Len(list) + stop > 0 THEN SubSeq(list, 1, Len(list) + stop)
    ELSE <<>>

\* get_high_risk_transactions cutting the stored list down to the slice
get_high_risk_transactions_del(limit) ==
    /\ request' = [endpoint |-> "/api/monitoring/high-risk",
                   args |-> [limit |-> limit]]
    /\ scorer' = None
    /\ high_risk_transactions' = slice_to(high_risk_transactions, limit)
    /\ response' = [status |-> 200,
                    json |-> [transactions |-> slice_to(high_risk_transactions, limit),
                              count |-> Len(slice_to(high_risk_transactions, limit)),
                              limit |-> limit]]
    /\ UNCHANGED <<model, metadata, monitoring_stats, recent_alerts, now>>

\* GET /api/monitoring/high-risk?limit=<limit>; an absent limit reads as 100
get_high_risk_transactions(limit) ==
    /\ request' = [endpoint |-> "/api/monitoring/high-risk",
                   args |-> [limit |-> limit]]
    /\ scorer' = None
    /\ response' = [status |-> 200,
                    json |-> [transactions |-> slice_to(high_risk_transactions, limit),
                              count |-> Len(slice_to(high_risk_transactions, limit)),
                              limit |-> limit]]
    /\ UNCHANGED <<model, metadata, monitoring_stats, recent_alerts,
                   high_risk_transactions, now>>

\* The wall clock advances
Tick ==
    /\ now < MaxTime
    /\ now' = now + 1
    /\ UNCHANGED <<model, metadata, monitoring_stats, recent_alerts,
                   high_risk_transactions, request, scorer, response, served,
                   inflight, launcher_vars>>

\* --------------------------------------------------- the server, one request
\* at a time: single-transaction calls and monitoring reads

\* The records of a long run: every kind of record, two amounts
RunRecords ==
    {Record(id, a, {}) : id \in TransactionIds, a \in {500, 150000}}
        \cup MalformedRecords \cup {JsonNull}

Process ==
    \E data \in RunRecords, proba \in ScorerOutcomes :
        /\ monitoring_stats["total_transactions"] < MaxTx
        /\ process_transaction(data, proba)

Next ==
    \/ Process /\ UNCHANGED <<served, inflight, launcher_vars>>
    \/ get_monitoring_stats /\ UNCHANGED <<served, inflight, launcher_vars>>

Spec == Init /\ [][Next]_vars

\* ------------------------------------------- the server, a budget of requests:
\* single-transaction calls, bulk calls and monitoring reads

BulkItems ==
    {[data |-> Record("t1", 150000, {}), proba |-> [proba |-> 85]],
     [data |-> Record("t2", 500, {}), proba |-> [proba |-> 0]],
     [data |-> Record("t1", 100000, {}), proba |-> [proba |-> 80]],
     [data |-> Record("t2", 50001, {}), proba |-> [proba |-> 61]],
     [data |-> Record("t1", 50000, {}), proba |-> [proba |-> 50]],
     [data |-> Record("t2", 150000, {}), proba |-> Raises],
     [data |-> Record("t1", 500, {"amount"}), proba |-> [proba |-> 85]],
     [data |-> Record("t1", 500, {"transaction_id"}), proba |-> [proba |-> 20]],
     [data |-> JsonNull, proba |-> Raises]}

Batches == UNION {[1..n -> BulkItems] : n \in 0..MaxBatch}

ServeProcess ==
    \E data \in Records, proba \in ScorerOutcomes : process_transaction(data, proba)

ServeBulk == \E items \in Batches : bulk_process_transactions(items)

Budget ==
    served < MaxServed /\ served' = served + 1 /\ UNCHANGED <<inflight, launcher_vars>>

NextBulk ==
    \/ Budget /\ ServeProcess
    \/ Budget /\ ServeBulk
    \/ Budget /\ get_monitoring_stats

SpecBulk == Init /\ [][NextBulk]_vars

\* ---------------------------------- the server, one request at a time, under
\* a running clock: every endpoint of the monitoring state

\* `record` with a timestamp field
Stamped(record, text) ==
    [f \in DOMAIN record \cup {"timestamp"} |->
        IF f = "timestamp" THEN text ELSE record[f]]

MonitorRecords ==
    {Record("t1", 150000, {}), Stamped(Record("t2", 500, {}), isoformat(0))}
MonitorOutcomes == {[proba |-> 0], [proba |-> 60], [proba |-> 85]}
MonitorItems ==
    {[data |-> Record("t1", 150000, {}), proba |-> [proba |-> 85]],
     [data |-> Record("t1", 500, {"amount"}), proba |-> [proba |-> 60]]}
MonitorBatches == UNION {[1..n -> MonitorItems] : n \in 0..MaxBatch}
\* hours of an alerts query; 24 is the default
Hours == {0, 1, 24}
\* limit of a high-risk query; 100 is the default
Limits == {-1, 0, 1, 100}

MonitorProcess ==
    \E data \in MonitorRecords, proba \in MonitorOutcomes :
        /\ monitoring_stats["total_transactions"] < MaxTx
        /\ process_transaction(data, proba)

NextMonitor ==
    \/ MonitorProcess /\ UNCHANGED <<served, inflight, launcher_vars>>
    \/ (\E items \in MonitorBatches : bulk_process_transactions(items))
          /\ UNCHANGED <<served, inflight, launcher_vars>>
    \/ get_monitoring_stats /\ UNCHANGED <<served, inflight, launcher_vars>>
    \/ (\E hours \in Hours : get_recent_alerts(hours))
          /\ UNCHANGED <<served, inflight, launcher_vars>>
    \/ (\E limit \in Limits : get_high_risk_transactions(limit))
          /\ UNCHANGED <<served, inflight, launcher_vars>>
    \/ Tick

SpecMonitor == Init /\ [][NextMonitor]_vars

\* ------------------------------------- the server, threaded: each statement
\* of a handler that touches the shared state is a step of its thread, and an
\* augmented assignment d[k] += 1 is two, the load of d[k] and the store

ConcRecords == {Record("t1", 150000, {}), Record("t2", 500, {})}
ConcProbabilities == {0, 60, 85}

\* The statement of process_transaction after `stmt` for a given score
next_statement(stmt, risk_score) ==
    LET after_pending ==
            IF get_risk_level(risk_score) = "HIGH" THEN "high_risk_append"
            ELSE IF risk_score > 80 THEN "alert_append" ELSE "return"
    IN  CASE stmt = "total_transactions" -> "level"
          [] stmt = "level" ->
                IF requires_review(risk_score) THEN "pending_reviews" ELSE after_pending
          [] stmt = "pending_reviews" -> after_pending
          [] stmt = "high_risk_append" ->
                IF risk_score > 80 THEN "alert_append" ELSE "return"
          [] stmt = "alert_append" -> "alerts_generated"
          [] stmt = "alerts_generated" -> "return"

\* The counter the augmented assignment at `stmt` updates
statement_counter(stmt, risk_score) ==
    IF stmt = "level" THEN level_counter(get_risk_level(risk_score)) ELSE stmt

AugmentedAssignments ==
    {"total_transactions", "level", "pending_reviews", "alerts_generated"}

SharedUnchanged ==
    UNCHANGED <<model, metadata, now, request, scorer, served, launcher_vars>>

\* A thread takes a well-formed request, scores it and reaches line 212
thread_process_begin(th, data, proba) ==
    /\ inflight[th].pc[1] = "idle"
    /\ model # None /\ metadata # None
    /\ inflight' = [inflight EXCEPT ![th] =
                       [pc |-> <<"total_transactions", "load">>, data |-> data,
                        risk_score |-> proba, loaded |-> 0, view |-> <<>>]]
    /\ UNCHANGED <<monitoring_stats, recent_alerts, high_risk_transactions, response>>
    /\ SharedUnchanged

\* monitoring_stats[k] += 1, first half: read monitoring_stats[k]
thread_load(th) ==
    /\ inflight[th].pc[1] \in AugmentedAssignments
    /\ inflight[th].pc[2] = "load"
    /\ inflight' = [inflight EXCEPT
          ![th].loaded = monitoring_stats[statement_counter(inflight[th].pc[1],
                                                            inflight[th].risk_score)],
          ![th].pc = <<inflight[th].pc[1], "store">>]
    /\ UNCHANGED <<monitoring_stats, recent_alerts, high_risk_transactions, response>>
    /\ SharedUnchanged

\* monitoring_stats[k] += 1, second half: write the value read plus one
thread_store(th) ==
    /\ inflight[th].pc[1] \in AugmentedAssignments
    /\ inflight[th].pc[2] = "store"
    /\ monitoring_stats' = [monitoring_stats EXCEPT
          ![statement_counter(inflight[th].pc[1], inflight[th].risk_score)] =
              inflight[th].loaded + 1]
    /\ inflight' = [inflight EXCEPT ![th].pc =
          <<next_statement(inflight[th].pc[1], inflight[th].risk_score), "load">>]
    /\ UNCHANGED <<recent_alerts, high_risk_transactions, response>>
    /\ SharedUnchanged

\* high_risk_transactions.append(...)
thread_high_risk_append(th) ==
    /\ inflight[th].pc[1] = "high_risk_append"
    /\ high_risk_transactions' =
          Append(high_risk_transactions,
                 high_risk_entry(inflight[th].data, inflight[th].risk_score, now))
    /\ inflight' = [inflight EXCEPT ![th].pc =
          <<next_statement("high_risk_append", inflight[th].risk_score), "load">>]
    /\ UNCHANGED <<monitoring_stats, recent_alerts, response>>
    /\ SharedUnchanged

\* recent_alerts.append(alert)
thread_alert_append(th) ==
    /\ inflight[th].pc[1] = "alert_append"
    /\ recent_alerts' =
          Append(recent_alerts, alert(inflight[th].data, inflight[th].risk_score, now))
    /\ inflight' = [inflight EXCEPT ![th].pc = <<"alerts_generated", "load">>]
    /\ UNCHANGED <<monitoring_stats, high_risk_transactions, response>>
    /\ SharedUnchanged

\* return jsonify({...})
thread_process_return(th) ==
    /\ inflight[th].pc[1] = "return"
    /\ inflight' = [inflight EXCEPT ![th].pc = <<"done", "done">>]
    /\ response' = [status |-> 200,
                    json |-> result(inflight[th].data, inflight[th].risk_score, now)]
    /\ UNCHANGED <<monitoring_stats, recent_alerts, high_risk_transactions>>
    /\ SharedUnchanged

\* The counters get_monitoring_stats reads, in the order it reads them
stats_reads ==
    <<"total_transactions", "high_risk_count", "medium_risk_count",
      "low_risk_count", "minimal_risk_count", "pending_reviews", "alerts_generated">>

\* get_monitoring_stats up to its store of uptime_seconds
thread_stats_begin ==
    /\ inflight[StatsThread].pc[1] = "idle"
    /\ monitoring_stats' = [monitoring_stats EXCEPT !["uptime_seconds"] = now * 3600]
    /\ inflight' = [inflight EXCEPT ![StatsThread].pc = <<"read", "load">>]
    /\ UNCHANGED <<recent_alerts, high_risk_transactions, response>>
    /\ SharedUnchanged

\* One monitoring_stats[...] of the response dict
thread_stats_read ==
    /\ inflight[StatsThread].pc = <<"read", "load">>
    /\ Len(inflight[StatsThread].view) < Len(stats_reads)
    /\ inflight' = [inflight EXCEPT ![StatsThread].view =
          Append(@, monitoring_stats[stats_reads[Len(@) + 1]])]
    /\ UNCHANGED <<monitoring_stats, recent_alerts, high_risk_transactions, response>>
    /\ SharedUnchanged

\* return jsonify({...}) of the values read
thread_stats_return ==
    /\ inflight[StatsThread].pc = <<"read", "load">>
    /\ Len(inflight[StatsThread].view) = Len(stats_reads)
    /\ inflight' = [inflight EXCEPT ![StatsThread].pc = <<"done", "done">>]
    /\ response' =
          LET view == inflight[StatsThread].view
          IN  [status |-> 200,
               json |-> [total_transactions |-> view[1],
                         risk_distribution |->
                            [high |-> view[2], medium |-> view[3],
                             low |-> view[4], minimal |-> view[5]],
                         pending_reviews |-> view[6],
                         alerts_generated |-> view[7],
                         processing_rate |-> monitoring_stats["processing_rate"],
                         uptime_seconds |-> monitoring_stats["uptime_seconds"],
                         queue_size |-> 0,
                         last_alert_time |-> None,
                         model_info |-> [threshold |-> IF metadata = None THEN 50
                                                       ELSE metadata.threshold]]]
    /\ UNCHANGED <<monitoring_stats, recent_alerts, high_risk_transactions>>
    /\ SharedUnchanged

NextConc ==
    \/ \E th \in ProcessThreads, data \in ConcRecords, proba \in ConcProbabilities :
          thread_process_begin(th, data, proba)
    \/ \E th \in ProcessThreads : thread_load(th)
    \/ \E th \in ProcessThreads : thread_store(th)
    \/ \E th \in ProcessThreads : thread_high_risk_append(th)
    \/ \E th \in ProcessThreads : thread_alert_append(th)
    \/ \E th \in ProcessThreads : thread_process_return(th)
    \/ thread_stats_begin
    \/ thread_stats_read
    \/ thread_stats_return

SpecConc == Init /\ [][NextConc]_vars

\* ------------------------------------ the launcher: main of start_system.py,
\* statement by statement, its children exiting when they will

\* main's local that holds the process of child c
process_of(c) ==
    CASE c = "api" -> api_process
      [] c = "generator" -> generator_process
      [] c = "dashboard" -> dashboard_process

\* The loop over required_files: a missing file is sys.exit(1) before the try
check_required_files(found) ==
    /\ main_pc = <<"main", "required_files">>
    /\ main_pc' = IF found THEN <<"start_api_server", "Popen">> ELSE <<"exit", "exit">>
    /\ UNCHANGED <<attempt, health, api_process, generator_process,
                   dashboard_process, children>>

\* The start function of child c returns its process and main goes on to the
\* next component
returns_process(c) ==
    /\ api_process' = IF c = "api" THEN Popen_object(c) ELSE api_process
    /\ generator_process' =
          IF c = "generator" THEN Popen_object(c) ELSE generator_process
    /\ dashboard_process' =
          IF c = "dashboard" THEN Popen_object(c) ELSE dashboard_process
    /\ main_pc' = CASE c = "api" -> <<"start_transaction_generator", "Popen">>
                    [] c = "generator" -> <<"start_dashboard_server", "Popen">>
                    [] c = "dashboard" -> <<"main", "running">>

\* The start function returns None: main's local is None, sys.exit(1) raises
\* SystemExit and the finally clause calls cleanup
returns_None ==
    /\ main_pc' = <<"cleanup", "generator">>
    /\ UNCHANGED <<api_process, generator_process, dashboard_process>>

\* subprocess.Popen([...]): the child runs, or Popen raises and the function
\* returns None
Popen(c, raised) ==
    /\ main_pc = <<start_function(c), "Popen">>
    /\ IF raised
       THEN returns_None /\ UNCHANGED children
       ELSE /\ children' = [children EXCEPT ![c] = "running"]
            /\ main_pc' = <<start_function(c), "poll">>
            /\ UNCHANGED <<api_process, generator_process, dashboard_process>>
    /\ UNCHANGED <<attempt, health>>

\* `if process.poll() is not None: return None`, then the sleep
poll(c) ==
    /\ main_pc = <<start_function(c), "poll">>
    /\ IF children[c] = "running"
       THEN /\ main_pc' = IF c = "api" THEN <<start_function(c), "health">>
                          ELSE <<start_function(c), "poll_again">>
            /\ UNCHANGED <<api_process, generator_process, dashboard_process>>
       ELSE returns_None
    /\ UNCHANGED <<attempt, health, children>>

\* One pass of `for attempt in range(max_retries)`: 200 returns the process;
\* another status or an exception goes to the next attempt, and after the
\* last attempt the function returns None
health_check(outcome) ==
    /\ main_pc = <<"start_api_server", "health">>
    /\ health' = outcome
    /\ IF outcome = [status_code |-> 200]
       THEN returns_process("api") /\ UNCHANGED attempt
       ELSE IF attempt < max_retries - 1
       THEN /\ attempt' = attempt + 1
            /\ UNCHANGED <<main_pc, api_process, generator_process, dashboard_process>>
       ELSE returns_None /\ UNCHANGED attempt
    /\ UNCHANGED children

\* `if process.poll() is None: return process` after the sleep of
\* start_transaction_generator and start_dashboard_server
poll_again(c) ==
    /\ c # "api"
    /\ main_pc = <<start_function(c), "poll_again">>
    /\ IF children[c] = "running" THEN returns_process(c) ELSE returns_None
    /\ UNCHANGED <<attempt, health, children>>

\* Ctrl+C while main is inside its try: no `except Exception` of a start
\* function catches KeyboardInterrupt, main's except clause does, and the
\* finally clause calls cleanup
KeyboardInterrupt ==
    /\ main_pc[1] \in StartFunctions \/ main_pc = <<"main", "running">>
    /\ main_pc' = <<"cleanup", "generator">>
    /\ UNCHANGED <<attempt, health, api_process, generator_process,
                   dashboard_process, children>>

\* One `if <c>_process:` block of cleanup: terminate(), wait(timeout=5) and,
\* if the wait timed out, kill()
cleanup(c, timed_out) ==
    /\ main_pc = <<"cleanup", c>>
    /\ children' =
          IF process_of(c) # None /\ children[c] = "running"
          THEN [children EXCEPT ![c] = IF timed_out THEN "killed" ELSE "terminated"]
          ELSE children
    /\ main_pc' = CASE c = "generator" -> <<"cleanup", "dashboard">>
                    [] c = "dashboard" -> <<"cleanup", "api">>
                    [] c = "api" -> <<"exit", "exit">>
    /\ UNCHANGED <<attempt, health, api_process, generator_process,
                   dashboard_process>>

\* A running child ends of its own accord while main is still there
child_exits(c) ==
    /\ children[c] = "running"
    /\ main_pc[1] # "exit"
    /\ children' = [children EXCEPT ![c] = "exited"]
    /\ UNCHANGED <<main_pc, attempt, health, api_process, generator_process,
                   dashboard_process>>

NextLauncher ==
    \/ (\E found \in BOOLEAN : check_required_files(found)) /\ UNCHANGED server_vars
    \/ (\E c \in Components, raised \in BOOLEAN : Popen(c, raised))
          /\ UNCHANGED server_vars
    \/ (\E c \in Components : poll(c)) /\ UNCHANGED server_vars
    \/ (\E outcome \in HealthOutcomes : health_check(outcome)) /\ UNCHANGED server_vars
    \/ (\E c \in Components : poll_again(c)) /\ UNCHANGED server_vars
    \/ KeyboardInterrupt /\ UNCHANGED server_vars
    \/ (\E c \in Components, timed_out \in BOOLEAN : cleanup(c, timed_out))
          /\ UNCHANGED server_vars
    \/ (\E c \in Components : child_exits(c)) /\ UNCHANGED server_vars

SpecLauncher == Init /\ [][NextLauncher]_vars

\* ------------------------------------------------------------------ claims

Range(seq) == {seq[i] : i \in 1..Len(seq)}

LevelSum(stats) ==
    stats["high_risk_count"] + stats["medium_risk_count"]
        + stats["low_risk_count"] + stats["minimal_risk_count"]

IsProcess == request # None /\ request.endpoint = "/api/process_transaction"
IsBulk == request # None /\ request.endpoint = "/api/bulk_process"

\* The last request was a single-transaction call that returned a result
Scored == IsProcess /\ response.status = 200

\* The last request was a bulk call that returned a result list
BulkReturned == IsBulk /\ response.status = 200

IsSuccess(entry) == "error" \notin DOMAIN entry

\* The scored results of the last response, single or bulk
ScoredEntries ==
    IF Scored THEN {response.json}
    ELSE IF BulkReturned THEN {e \in Range(response.json.results) : IsSuccess(e)}
    ELSE {}

WellFormed(data) == data # JsonNull /\ MissingFields(data) = <<>>
Malformed(data) == data # JsonNull /\ MissingFields(data) # <<>>

\* Item i of the last bulk request is well-formed and the Scorer scored it
GoodItem(i) ==
    /\ WellFormed(request.json.transactions[i])
    /\ model # None /\ metadata # None
    /\ scorer[i] # None /\ scorer[i] # Raises

\* C1: after any sequence of completed single-transaction process calls the
\* four level counters sum to total_transactions.
C1_LevelCountersSumToTotal ==
    LevelSum(monitoring_stats) = monitoring_stats["total_transactions"]

C1_Witness ==
    /\ monitoring_stats["total_transactions"] = 2
    /\ monitoring_stats["high_risk_count"] = 1
    /\ monitoring_stats["minimal_risk_count"] = 1

\* The values the stats thread read, once it has read them all
StatsView == inflight[StatsThread].view

\* C2: the mutations of one transaction are one atomic unit: the stats reader
\* never returns level counters that do not sum to the total it returns, and
\* at no instant a reader may look has the HIGH counter been incremented for a
\* transaction whose high-risk history entry is not yet appended.
C2_AtomicUnit ==
    /\ inflight[StatsThread].pc[1] = "done"
          => StatsView[2] + StatsView[3] + StatsView[4] + StatsView[5] = StatsView[1]
    /\ monitoring_stats["high_risk_count"] <= Len(high_risk_transactions)

\* C3: once N concurrent process calls with distinct ids have all completed,
\* total_transactions has increased (from 0) by exactly N.
C3_NoLostUpdate ==
    (/\ \A th \in ProcessThreads : inflight[th].pc[1] = "done"
     /\ \A a, b \in ProcessThreads :
           a # b => inflight[a].data["transaction_id"] # inflight[b].data["transaction_id"])
    => monitoring_stats["total_transactions"] = ConcurrentCalls

\* The last bulk request held exactly one malformed record, at position k,
\* and every other record was well-formed and scored
OneMalformedAt(k) ==
    /\ IsBulk
    /\ k \in 1..Len(request.json.transactions)
    /\ Malformed(request.json.transactions[k])
    /\ \A i \in 1..Len(request.json.transactions) : i # k => GoodItem(i)

\* C4: a batch of N records with exactly one malformed item k returns exactly
\* N entries in input order, exactly one of them an error entry, at position k.
C4_OneErrorEntryAtK ==
    \A k \in 1..MaxBatch :
        OneMalformedAt(k) =>
            /\ response.status = 200
            /\ Len(response.json.results) = Len(request.json.transactions)
            /\ \A i \in 1..Len(request.json.transactions) :
                  /\ response.json.results[i].transaction_id
                        = get_transaction_id(request.json.transactions[i])
                  /\ (~IsSuccess(response.json.results[i])) <=> (i = k)

\* C5: a bulk call with exactly one malformed item among N raises
\* total_transactions by N - 1.
C5_BulkCountsScoredItems ==
    [][\A k \in 1..MaxBatch :
          (served' # served /\ OneMalformedAt(k)')
              => monitoring_stats'["total_transactions"]
                    = monitoring_stats["total_transactions"]
                        + Len(request'.json.transactions) - 1]_vars

\* The positions of the last bulk request's well-formed, scored items
GoodPositions ==
    SelectSeq([i \in 1..Len(request.json.transactions) |-> i], GoodItem)

\* C6: a bulk call whose items fail only by a missing field or a scorer error
\* returns a result list, in which the successful entries are, in input order,
\* those of the well-formed items the Scorer scored: a failing item takes no
\* later item's result away.
C6_FailureDoesNotAbortBatch ==
    (/\ IsBulk
     /\ request.json.transactions # <<>>
     /\ \A i \in 1..Len(request.json.transactions) :
           request.json.transactions[i] # JsonNull)
    => /\ response.status = 200
       /\ LET successes == SelectSeq(response.json.results, IsSuccess)
          IN  /\ Len(successes) = Len(GoodPositions)
              /\ \A m \in 1..Len(successes) :
                    /\ successes[m].transaction_id
                          = request.json.transactions[GoodPositions[m]]["transaction_id"]
                    /\ successes[m].risk_score = scorer[GoodPositions[m]].proba

C6_Witness ==
    /\ IsBulk
    /\ Len(request.json.transactions) = 2
    /\ Malformed(request.json.transactions[1])
    /\ GoodItem(2)
    /\ response.status = 200
    /\ IsSuccess(response.json.results[Len(response.json.results)])

\* C7: the level of a scored transaction is MINIMAL below 0.2, LOW in
\* [0.2, 0.5), MEDIUM in [0.5, 0.8) and HIGH from 0.8 on, exactly one of the
\* four, whatever the model's decision threshold.
C7_LevelPartition ==
    Scored =>
        LET p == response.json.risk_score
            l == response.json.risk_level
        IN  /\ l \in {"MINIMAL", "LOW", "MEDIUM", "HIGH"}
            /\ (l = "MINIMAL") <=> (p < 20)
            /\ (l = "LOW") <=> (20 <= p /\ p < 50)
            /\ (l = "MEDIUM") <=> (50 <= p /\ p < 80)
            /\ (l = "HIGH") <=> (p >= 80)

C7_Witness ==
    /\ Scored
    /\ response.json.risk_score = 50
    /\ response.json.risk_level = "MEDIUM"
    /\ metadata.threshold = 70

\* C8: every scored result, single or bulk, is PENDING exactly when
\* requires_review holds, which is exactly when the probability is >= 0.5, and
\* APPROVED otherwise.
C8_ComplianceStatus ==
    \A e \in ScoredEntries :
        /\ e.compliance_status \in {"PENDING", "APPROVED"}
        /\ (e.compliance_status = "PENDING") <=> (e.requires_review = TRUE)
        /\ (e.requires_review = TRUE) <=> (e.risk_score >= 50)

C8_Witness ==
    /\ BulkReturned
    /\ \E e \in ScoredEntries : e.risk_score = 50 /\ e.compliance_status = "PENDING"
    /\ \E e \in ScoredEntries : e.risk_score < 50 /\ e.compliance_status = "APPROVED"

FlagRules(flags, amount, p) ==
    /\ ("large_amount" \in Range(flags)) <=> (amount > 100000)
    /\ ("high_risk_score" \in Range(flags)) <=> (p > 80)
    /\ ("suspicious_pattern" \in Range(flags)) <=> (amount > 50000 /\ p > 60)
    /\ Range(flags) \subseteq {"large_amount", "high_risk_score", "suspicious_pattern"}
    /\ Len(flags) = Cardinality(Range(flags))
    /\ Len(flags) <= 3

\* C9: the flags of a scored result, single or bulk, are exactly those of the
\* three rules on the record's amount and the probability.
C9_FlagRules ==
    /\ Scored =>
          FlagRules(response.json.flagged_features, request.json["amount"],
                    response.json.risk_score)
    /\ BulkReturned =>
          \A e \in ScoredEntries :
              \E i \in 1..Len(request.json.transactions) :
                  /\ GoodItem(i)
                  /\ request.json.transactions[i]["transaction_id"] = e.transaction_id
                  /\ scorer[i].proba = e.risk_score
                  /\ FlagRules(e.flagged_features,
                               request.json.transactions[i]["amount"], e.risk_score)

C9_Witness ==
    /\ BulkReturned
    /\ \E e \in ScoredEntries :
          e.risk_score = 80 /\ e.flagged_features = <<"suspicious_pattern">>
    /\ \E e \in ScoredEntries : e.risk_score = 50 /\ e.flagged_features = <<>>

\* The first scored transaction of the run had amount 150000 and probability 0.85
C10_Scenario ==
    /\ Scored
    /\ monitoring_stats["total_transactions"] = 1
    /\ request.json["amount"] = 150000
    /\ response.json.risk_score = 85

C10_Outcome(flags) ==
    /\ response.json.risk_level = "HIGH"
    /\ response.json.requires_review = TRUE
    /\ response.json.compliance_status = "PENDING"
    /\ Range(response.json.flagged_features) = flags
    /\ Len(recent_alerts) = 1
    /\ monitoring_stats["alerts_generated"] = 1

\* C10 as stated: the scenario yields the flag set {large_amount, high_risk_score}.
C10_AsStated == C10_Scenario => C10_Outcome({"large_amount", "high_risk_score"})

\* C10: from the initial monitoring state, amount 150000 at probability 0.85
\* yields HIGH, requires_review, PENDING, one alert, alerts_generated = 1 and
\* the flag set {large_amount, high_risk_score, suspicious_pattern}.
C10_ScenarioOutcome ==
    C10_Scenario
        => C10_Outcome({"large_amount", "high_risk_score", "suspicious_pattern"})

C10_Witness == C10_Scenario /\ Len(response.json.flagged_features) = 3

\* This step is a process call that returned a result
ProcessSucceeds ==
    /\ request' # None
    /\ request'.endpoint = "/api/process_transaction"
    /\ response'.status = 200
    /\ now' = now
    /\ inflight' = inflight

C12_HistoryIffHigh ==
    [][/\ ProcessSucceeds =>
            IF response'.json.risk_score >= 80
            THEN /\ response'.json.risk_level = "HIGH"
                 /\ Len(high_risk_transactions') = Len(high_risk_transactions) + 1
                 /\ SubSeq(high_risk_transactions', 1, Len(high_risk_transactions))
                       = high_risk_transactions
                 /\ high_risk_transactions'[Len(high_risk_transactions')].transaction_id
                       = request'.json["transaction_id"]
            ELSE /\ response'.json.risk_level # "HIGH"
                 /\ high_risk_transactions' = high_risk_transactions
       /\ Len(high_risk_transactions') = monitoring_stats'["high_risk_count"]]_vars

C12_Witness ==
    /\ Scored
    /\ response.json.risk_level = "MEDIUM"
    /\ Len(high_risk_transactions) = 1
    /\ high_risk_transactions[1].transaction_id = "t2"
    /\ monitoring_stats["high_risk_count"] = 1
    /\ monitoring_stats["total_transactions"] = 2

\* C13: pending_reviews never decreases: across every step of every sequence
\* of process calls, bulk calls and stats, alerts and high-risk reads its
\* value in the next state is at least its value in the current state.
C13_PendingReviewsMonotone ==
    [][monitoring_stats'["pending_reviews"] >= monitoring_stats["pending_reviews"]]_vars

C13_Witness ==
    /\ monitoring_stats["pending_reviews"] = 2
    /\ request.endpoint = "/api/monitoring/high-risk"
    /\ now = 1

\* This step is a single-transaction call
ProcessCalled ==
    /\ request' # None
    /\ request'.endpoint = "/api/process_transaction"
    /\ now' = now
    /\ inflight' = inflight

MonitoringUnchanged ==
    UNCHANGED <<monitoring_stats, recent_alerts, high_risk_transactions>>

\* The counter that belongs to a risk level
CounterOf(risk_level) ==
    CASE risk_level = "HIGH" -> "high_risk_count"
      [] risk_level = "MEDIUM" -> "medium_risk_count"
      [] risk_level = "LOW" -> "low_risk_count"
      [] risk_level = "MINIMAL" -> "minimal_risk_count"

\* C14: process is not idempotent: every process call that returns success
\* adds exactly one to total_transactions and to the counter of its level,
\* also when the record (same transaction id) was submitted before.
C14_NotIdempotent ==
    [][ProcessSucceeds =>
          /\ monitoring_stats'["total_transactions"]
                = monitoring_stats["total_transactions"] + 1
          /\ monitoring_stats'[CounterOf(response'.json.risk_level)]
                = monitoring_stats[CounterOf(response'.json.risk_level)] + 1]_vars

\* The same record scored HIGH twice: both calls counted
C14_Witness ==
    /\ Scored
    /\ Len(high_risk_transactions) = 2
    /\ high_risk_transactions[1] = high_risk_transactions[2]
    /\ monitoring_stats["total_transactions"] = 2
    /\ monitoring_stats["high_risk_count"] = 2

\* The required fields a record lacks
Lacking(data) == IF data = JsonNull THEN {} ELSE RequiredSet \ DOMAIN data

\* C15: a single-transaction call whose record lacks a required field is
\* rejected with an error naming a missing field, the Scorer is not invoked,
\* and the counters and both histories are left unchanged.
C15_MissingFieldRejected ==
    [][(ProcessCalled /\ Lacking(request'.json) # {}) =>
          /\ response'.status = 400
          /\ response'.error.message = "Missing required field"
          /\ response'.error.field \in Lacking(request'.json)
          /\ scorer' = None
          /\ MonitoringUnchanged]_vars

C15_Witness ==
    /\ IsProcess
    /\ request.json = Record("t1", 500, {"amount", "sender_id"})
    /\ response = [status |-> 400, error |-> MissingField("amount")]
    /\ scorer = None
    /\ monitoring_stats["total_transactions"] = 1

\* C16: a single-transaction call on a well-formed record that fails because
\* the Scorer is not loaded or raises returns an error and applies none of
\* the monitoring mutations; no call that returns an error applies any.
C16_FailedCallChangesNothing ==
    [][/\ (ProcessCalled /\ WellFormed(request'.json)
              /\ (model = None \/ scorer' = Raises)) =>
            /\ response'.status = 500
            /\ IsException(response'.error)
            /\ MonitoringUnchanged
       /\ (ProcessCalled /\ response'.status # 200) => MonitoringUnchanged]_vars

C16_Witness ==
    /\ IsProcess
    /\ WellFormed(request.json)
    /\ scorer = Raises
    /\ response.status = 500
    /\ monitoring_stats["total_transactions"] = 1
    /\ Len(recent_alerts) = 1

\* The last request was a high-risk read
IsHighRiskRead == request # None /\ request.endpoint = "/api/monitoring/high-risk"

\* The last n entries of a list, all of them when it has fewer
LastEntries(list, n) ==
    IF n >= Len(list) THEN list ELSE SubSeq(list, Len(list) - n + 1, Len(list))

\* C17: the high-risk read with limit >= 0 returns the most recent `limit`
\* entries of the high-risk history (all of them when there are fewer), in
\* insertion order, and the count it reports is the number returned.
C17_MostRecentLimit ==
    (IsHighRiskRead /\ request.args.limit >= 0) =>
        /\ response.json.transactions
              = LastEntries(high_risk_transactions, request.args.limit)
        /\ response.json.count = Len(response.json.transactions)

\* This step is an alerts read
AlertsRead ==
    /\ request' # None
    /\ request'.endpoint = "/api/monitoring/alerts"
    /\ now' = now
    /\ inflight' = inflight

\* The stored alerts created later than `cutoff`, in the order stored
CreatedAfter(cutoff) ==
    LET RECURSIVE keep(_)
        keep(n) ==
            IF n = 0 THEN <<>>
            ELSE IF fromisoformat(recent_alerts[n].timestamp) > cutoff
                THEN Append(keep(n - 1), recent_alerts[n])
            ELSE keep(n - 1)
    IN  keep(Len(recent_alerts))

\* C18: the alerts read returns exactly the stored alerts whose creation
\* timestamp is later than the query time minus the window's hours, in their
\* insertion order, and reports their number as count; an alert created at
\* or before the cutoff is not returned.
C18_AlertsWithinWindow ==
    [][AlertsRead =>
          /\ response'.json.alerts = CreatedAfter(now - request'.args.hours)
          /\ response'.json.count = Len(response'.json.alerts)
          /\ \A i \in 1..Len(response'.json.alerts) :
                fromisoformat(response'.json.alerts[i].timestamp)
                    > now - request'.args.hours]_vars

\* Two alerts, the first created exactly at the cutoff: only the second is
\* returned
C18_Witness ==
    /\ request # None /\ request.endpoint = "/api/monitoring/alerts"
    /\ request.args.hours = 1
    /\ now = 1
    /\ Len(recent_alerts) = 2
    /\ recent_alerts[1].timestamp = isoformat(0)
    /\ recent_alerts[2].timestamp = isoformat(1)
    /\ response.json.alerts = <<recent_alerts[2]>>
    /\ response.json.count = 1

ReadEndpoints ==
    {"/api/monitoring/stats", "/api/monitoring/alerts", "/api/monitoring/high-risk"}

\* The counters that transactions drive
TransactionCounters ==
    {"total_transactions", "high_risk_count", "medium_risk_count", "low_risk_count",
     "minimal_risk_count", "pending_reviews", "alerts_generated"}

\* C19: the stats, alerts and high-risk reads leave total_transactions, the
\* four level counters, pending_reviews, alerts_generated and the contents
\* and order of both history lists unchanged; the uptime of a snapshot is the
\* time elapsed since start_time at that snapshot, and no single-transaction
\* call changes it.
C19_ReadsLeaveStateUnchanged ==
    [][/\ (request' # None /\ request'.endpoint \in ReadEndpoints) =>
            /\ \A k \in TransactionCounters :
                  monitoring_stats'[k] = monitoring_stats[k]
            /\ recent_alerts' = recent_alerts
            /\ high_risk_transactions' = high_risk_transactions
       /\ (request' # None /\ request'.endpoint = "/api/monitoring/stats"
              /\ now' = now) =>
            response'.json.uptime_seconds = now * 3600
       /\ ProcessCalled =>
            monitoring_stats'["uptime_seconds"] = monitoring_stats["uptime_seconds"]
      ]_vars

\* A snapshot taken an hour after start, after two HIGH transactions
C19_Witness ==
    /\ request # None /\ request.endpoint = "/api/monitoring/stats"
    /\ now = 1
    /\ response.json.uptime_seconds = 3600
    /\ response.json.total_transactions = 2
    /\ Len(high_risk_transactions) = 2
    /\ Len(recent_alerts) = 2

\* This step is a scored single-transaction call on the record that the
\* scored call before it was made on
SameRecordScoredAgain ==
    /\ Scored
    /\ ProcessSucceeds
    /\ request'.json = request.json

\* The feature vectors of the two calls of such a step: prepare_features
\* runs at the wall-clock time its call stamps on the response
FeaturesBefore == prepare_features(request.json, fromisoformat(response.json.processed_at))
FeaturesAfter == prepare_features(request'.json, fromisoformat(response'.json.processed_at))

\* C20 as stated: two encodings of the identical valid record made at
\* different wall-clock times are identical, also for a record that carries
\* no timestamp field.
C20_AsStated ==
    [][SameRecordScoredAgain => FeaturesAfter = FeaturesBefore]_vars

\* C20: two encodings of the identical valid record that carries a timestamp
\* field, made at different wall-clock times, are identical: the temporal
\* features come from the record's timestamp.
C20_StampedRecordDeterministic ==
    [][(SameRecordScoredAgain /\ "timestamp" \in DOMAIN request'.json) =>
          FeaturesAfter = FeaturesBefore]_vars

\* The record stamped with hour 0 scored HIGH at hour 0 and again at hour 1
C20_Witness ==
    /\ Scored
    /\ "timestamp" \in DOMAIN request.json
    /\ response.json.processed_at = isoformat(1)
    /\ Len(high_risk_transactions) = 2
    /\ high_risk_transactions[1].transaction_id = request.json["transaction_id"]
    /\ high_risk_transactions[2].transaction_id = request.json["transaction_id"]
    /\ high_risk_transactions[1].timestamp = isoformat(0)
    /\ high_risk_transactions[2].timestamp = isoformat(1)
    /\ prepare_features(request.json, 1).Hour = 0

\* C21: after any sequence of completed single-transaction process calls
\* pending_reviews equals high_risk_count + medium_risk_count: a transaction
\* is counted for review exactly when its level is MEDIUM or HIGH.
C21_PendingIsMediumPlusHigh ==
    monitoring_stats["pending_reviews"]
        = monitoring_stats["high_risk_count"] + monitoring_stats["medium_risk_count"]

\* One transaction at exactly 0.5 (MEDIUM) beside one below it
C21_Witness ==
    /\ Scored
    /\ response.json.risk_score = 50
    /\ response.json.risk_level = "MEDIUM"
    /\ monitoring_stats["total_transactions"] = 2
    /\ monitoring_stats["medium_risk_count"] = 1
    /\ monitoring_stats["high_risk_count"] = 0
    /\ monitoring_stats["pending_reviews"] = 1

\* main has returned or raised out of its finally clause
MainExited == main_pc[1] = "exit"

\* The components start in the order API server, transaction generator,
\* dashboard server, each after the one before it was reported started, the
\* API server after a health check answered 200 within max_retries attempts
StartOrder ==
    /\ api_process # None =>
          /\ health = [status_code |-> 200]
          /\ attempt < max_retries
    /\ children["generator"] # "unspawned" => api_process # None
    /\ generator_process # None => api_process # None
    /\ children["dashboard"] # "unspawned" => generator_process # None
    /\ dashboard_process # None => generator_process # None
    /\ main_pc = <<"main", "running">> => dashboard_process # None

\* No child that was spawned is still running
NoChildRunning == \A c \in Components : children[c] # "running"

\* C22: the launcher starts the components strictly in the order API server,
\* transaction generator, dashboard server, each only after the one before
\* was reported started (the API server only after a health check returned
\* 200 within max_retries attempts), and whenever main has exited, by
\* start-up failure or by interrupt, no child that was spawned is still
\* running.
C22_OrderedStartAndCleanExit ==
    /\ StartOrder
    /\ MainExited => NoChildRunning

====
